---- MODULE Spec2Model ----
(***************************************************************************)
(* Model of the Cuba wrapper core of the `integrators` crate               *)
(* (src/src/cuba/mod.rs): the foreign callback adapter cuba_integrand, the *)
(* result model (CubaIntegrationResults, CubaError) and the result         *)
(* iteration adapter (CubaResultsIter).                                    *)
(*                                                                         *)
(* Three specifications share the module:                                 *)
(*   SpecAdapter  the foreign routine's worker threads invoking            *)
(*                cuba_integrand on one Landing Pad;                       *)
(*   SpecDriver   a driver setting up, running and parsing one integration;*)
(*   SpecResults  a consumer iterating over a CubaIntegrationResults.      *)
(***************************************************************************)
EXTENDS Integers, Sequences, FiniteSets, TLC

(* ------------------------------ bounds --------------------------------- *)

\* Largest dimension / component count the model explores.
MaxCount == 2

\* Largest number of adapter invocations the modelled foreign routine makes
\* during one integration in SpecDriver.
MaxCalls == 2

\* Largest number of next() calls made after the iterator is exhausted.
MaxExtraNext == 2

\* The values a Real takes in the model.
RealVals == {0, 1}

\* The foreign routine's worker threads.
Threads == {"w1", "w2"}

\* The wrapped algorithms (mod cuhre, mod suave, mod vegas).
Algorithms == {"cuhre", "suave", "vegas"}

SeqsOfLen(S, n) == [1..n -> S]

VARIABLES
    \* --- adapter (one Landing Pad, the foreign routine's threads) ---
    lp,        \* the Landing Pad userdata points to: declared sizes + closure
    pc,        \* pc[t]: where thread t is inside cuba_integrand
    ndim,      \* ndim[t]: the count `ndim` points to
    x,         \* x[t]: the input buffer `x` points to
    ncomp,     \* ncomp[t]: the count `ncomp` points to
    args,      \* args[t]: the input view handed to try_call
    outlen,    \* outlen[t]: length of the output view handed to try_call
    sized,     \* sized[t]: both views had the declared sizes
    eval,      \* eval[t]: outcome of the closure evaluation of this invocation
    res,       \* res[t]: what try_call returned to the adapter
    ret,       \* ret[t]: how the invocation left cuba_integrand
    aborted,   \* some invocation has returned the abort code
    late,      \* late[t]: this invocation began after the abort code was returned
    \* --- driver ---
    phase, request, foreignCalls, adapterCalls, raw, outcome,
    \* --- result iteration ---
    given, iter, log

adapterVars == <<lp, pc, ndim, x, ncomp, args, outlen, sized, eval, res, ret, aborted, late>>
driverVars  == <<phase, request, foreignCalls, adapterCalls, raw, outcome>>
resultVars  == <<given, iter, log>>
vars == <<adapterVars, driverVars, resultVars>>

(* --------------------- foreign callback adapter ------------------------ *)

\* -999 is special `abort` code to Cuba
AbortCode == -999

Returned(status) == [kind |-> "return", status |-> status]
Unwound          == [kind |-> "unwind", status |-> 0]
NotReturned      == [kind |-> "none",   status |-> 0]

Min(a, b) == IF a < b THEN a ELSE b

\* `*ndim as usize`: a non-negative c_int keeps its value.
AsUsize(n) == n

\* slice::from_raw_parts(p, len): the first len elements at p.
FromRawParts(buf, len) == SubSeq(buf, 1, len)

\* A view sized by the Landing Pad's declared dimensionality instead of the
\* advertised count.
ArgsView_declared(xs, n) == FromRawParts(xs, Min(lp.dim, Len(xs)))

\* let args = slice::from_raw_parts(x, *ndim as usize);
ArgsView(xs, n) == FromRawParts(xs, AsUsize(n))

\* let output = slice::from_raw_parts_mut(f, *ncomp as usize);  (its length)
OutputLen(m) == AsUsize(m)

\* The user closure F owned by the Landing Pad: it fails (panics) on the
\* inputs in lp.failOn and produces a value on every other input.
Closure(a) == IF a \in lp.failOn THEN "panic" ELSE "value"

\* What evaluating the integrand on the views can do.  With views of the
\* declared sizes the closure decides; IntegrandInput/IntegrandOutput say
\* nothing about views of another size, so either outcome is possible.
EvalOutcomes(a, olen) ==
    IF Len(a) = lp.dim /\ olen = lp.comp THEN {Closure(a)} ELSE {"value", "panic"}

\* LandingPad::try_call's result: a failure of the evaluation is caught and
\* reported as Err(()), success as Ok(()).
TryCallResult(e) == IF e = "value" THEN "Ok" ELSE "Err"

\* Err mapped to another negative status.
cuba_integrand_match_wrongcode(r) ==
    IF r = "Ok" THEN Returned(0) ELSE Returned(-1)

\* The two arms swapped.
cuba_integrand_match_swapped(r) ==
    IF r = "Ok" THEN Returned(AbortCode) ELSE Returned(0)

\* `lp.try_call(args, output).unwrap(); 0`: an Err panics in the adapter.
cuba_integrand_match_unwrap(r) ==
    IF r = "Ok" THEN Returned(0) ELSE Unwound

\* The abort remembered across invocations.
cuba_integrand_match_latched(r) ==
    IF r = "Ok" /\ ~aborted THEN Returned(0) ELSE Returned(AbortCode)

\* match lp.try_call(args, output) { Ok(_) => 0, Err(_) => -999 }
cuba_integrand_match(r) ==
    IF r = "Ok" THEN Returned(0) ELSE Returned(AbortCode)

\* The input of dimension d on which a failing closure of the model fails.
FailPoint(d) == [i \in 1..d |-> 1]

\* The Landing Pads a driver can have constructed: declared sizes within
\* 1..MaxCount and a closure that always succeeds or fails on one input.
LandingPads ==
    UNION { { [dim |-> d, comp |-> c, failOn |-> F] :
                c \in 1..MaxCount, F \in {{}, {FailPoint(d)}} } :
            d \in 1..MaxCount }

NoPad == [dim |-> 0, comp |-> 0, failOn |-> {}]

\* The adapter refusing to enter while another invocation is inside.
cuba_integrand_entry_locked(t, n, xs, m) ==
    /\ pc[t] = "idle"
    /\ \A u \in Threads \ {t} : pc[u] = "idle"
    /\ pc' = [pc EXCEPT ![t] = "try_call"]
    /\ ndim' = [ndim EXCEPT ![t] = n]
    /\ x' = [x EXCEPT ![t] = xs]
    /\ ncomp' = [ncomp EXCEPT ![t] = m]
    /\ args' = [args EXCEPT ![t] = ArgsView(xs, n)]
    /\ outlen' = [outlen EXCEPT ![t] = OutputLen(m)]
    /\ sized' = [sized EXCEPT ![t] = (Len(ArgsView(xs, n)) = lp.dim /\ OutputLen(m) = lp.comp)]
    /\ eval' = [eval EXCEPT ![t] = "none"]
    /\ res' = [res EXCEPT ![t] = "none"]
    /\ ret' = [ret EXCEPT ![t] = NotReturned]
    /\ late' = [late EXCEPT ![t] = aborted]
    /\ UNCHANGED <<lp, aborted, driverVars, resultVars>>

\* The foreign routine calls cuba_integrand(ndim, x, ncomp, f, userdata) from
\* thread t; the adapter recovers the Landing Pad from userdata and builds
\* the two views (lines 36-40).  No lock is taken.
cuba_integrand_entry(t, n, xs, m) ==
    /\ pc[t] = "idle"
    /\ pc' = [pc EXCEPT ![t] = "try_call"]
    /\ ndim' = [ndim EXCEPT ![t] = n]
    /\ x' = [x EXCEPT ![t] = xs]
    /\ ncomp' = [ncomp EXCEPT ![t] = m]
    /\ args' = [args EXCEPT ![t] = ArgsView(xs, n)]
    /\ outlen' = [outlen EXCEPT ![t] = OutputLen(m)]
    /\ sized' = [sized EXCEPT ![t] = (Len(ArgsView(xs, n)) = lp.dim /\ OutputLen(m) = lp.comp)]
    /\ eval' = [eval EXCEPT ![t] = "none"]
    /\ res' = [res EXCEPT ![t] = "none"]
    /\ ret' = [ret EXCEPT ![t] = NotReturned]
    /\ late' = [late EXCEPT ![t] = aborted]
    /\ UNCHANGED <<lp, aborted, driverVars, resultVars>>

\* lp.try_call(args, output) starts: the input is built from args and the
\* closure is entered.  The buffers are not read again, so the model drops
\* them here.
try_call_invoke(t) ==
    /\ pc[t] = "try_call"
    /\ \E e \in EvalOutcomes(args[t], outlen[t]) : eval' = [eval EXCEPT ![t] = e]
    /\ pc' = [pc EXCEPT ![t] = "closure"]
    /\ ndim' = [ndim EXCEPT ![t] = 0]
    /\ x' = [x EXCEPT ![t] = <<>>]
    /\ ncomp' = [ncomp EXCEPT ![t] = 0]
    /\ args' = [args EXCEPT ![t] = <<>>]
    /\ outlen' = [outlen EXCEPT ![t] = 0]
    /\ UNCHANGED <<lp, sized, res, ret, aborted, late, driverVars, resultVars>>

\* The closure evaluation ends and try_call hands its result to the adapter.
try_call_return(t) ==
    /\ pc[t] = "closure"
    /\ res' = [res EXCEPT ![t] = TryCallResult(eval[t])]
    /\ pc' = [pc EXCEPT ![t] = "match"]
    /\ UNCHANGED <<lp, ndim, x, ncomp, args, outlen, sized, eval, ret, aborted, late,
                   driverVars, resultVars>>

\* The match on try_call's result (lines 42-46) and the return to the
\* foreign routine.
cuba_integrand_exit(t) ==
    /\ pc[t] = "match"
    /\ ret' = [ret EXCEPT ![t] = cuba_integrand_match(res[t])]
    /\ aborted' = (aborted \/ cuba_integrand_match(res[t]) = Returned(AbortCode))
    /\ pc' = [pc EXCEPT ![t] = "idle"]
    /\ UNCHANGED <<lp, ndim, x, ncomp, args, outlen, sized, eval, res, late,
                   driverVars, resultVars>>

(* ----------------------------- result model ---------------------------- *)

None    == [some |-> FALSE, val |-> 0]
Some(v) == [some |-> TRUE, val |-> v]

Ok(v)  == [tag |-> "Ok", val |-> v]
Err(e) == [tag |-> "Err", val |-> e]

\* pub struct CubaIntegrationResult { value, error, prob }
CubaIntegrationResult(value, error, prob) ==
    [value |-> value, error |-> error, prob |-> prob]

\* pub struct CubaIntegrationResults { nregions, neval, results }
CubaIntegrationResults(nregions, neval, results) ==
    [nregions |-> nregions, neval |-> neval, results |-> results]

\* IntegrationResult { value, error }
IntegrationResult(value, error) == [value |-> value, error |-> error]

\* A dimension error reported under the component variant.
BadDim_asBadComp(name, n) == [variant |-> "BadComp", name |-> name, n |-> n]

\* CubaError::BadDim(&'static str, usize)
BadDim(name, n) == [variant |-> "BadDim", name |-> name, n |-> n]

\* CubaError::BadComp(&'static str, usize)
BadComp(name, n) == [variant |-> "BadComp", name |-> name, n |-> n]

\* The error variant carrying no per-component results.
DidNotConverge_discarding(r) ==
    [variant |-> "DidNotConverge",
     results |-> CubaIntegrationResults(r.nregions, r.neval, <<>>)]

\* CubaError::DidNotConverge(CubaIntegrationResults)
DidNotConverge(r) == [variant |-> "DidNotConverge", results |-> r]

(* ------------------------------- driver -------------------------------- *)

\* The largest dimensionality and component count an algorithm accepts.
AlgMaxDim(alg)  == MaxCount
AlgMaxComp(alg) == MaxCount

\* Whether the algorithm partitions the domain and so reports a region count.
HasRegions(alg) == alg # "vegas"

\* The raw output of the foreign routine parsed into the result model: one
\* value/error/prob triple per component plus the scalar metadata.
ParseResults(alg, buf) ==
    CubaIntegrationResults(
        IF HasRegions(alg) THEN Some(buf.nregions) ELSE None,
        buf.neval,
        [i \in 1..Len(buf.integral) |->
            CubaIntegrationResult(buf.integral[i], buf.error[i], buf.prob[i])])

\* The convergence check on the foreign routine's flag.
ParseOutcome(alg, buf) ==
    IF buf.fail = 0 THEN Ok(ParseResults(alg, buf))
    ELSE Err(DidNotConverge(ParseResults(alg, buf)))

\* A driver is asked to integrate an integrand of declared dimensionality nd
\* and component count nc with algorithm alg: the sizes are checked before
\* anything else, and a bad size ends the request at once.
Integrate(alg, nd, nc) ==
    /\ phase = "idle"
    /\ request' = [alg |-> alg, ndim |-> nd, ncomp |-> nc]
    /\ IF nd = 0 \/ nd > AlgMaxDim(alg)
       THEN outcome' = Err(BadDim(alg, nd)) /\ phase' = "done"
       ELSE IF nc = 0 \/ nc > AlgMaxComp(alg)
       THEN outcome' = Err(BadComp(alg, nc)) /\ phase' = "done"
       ELSE outcome' = outcome /\ phase' = "setup"
    /\ UNCHANGED <<foreignCalls, adapterCalls, raw, adapterVars, resultVars>>

\* The driver calls the foreign routine with the adapter and the Landing Pad.
ForeignBegin ==
    /\ phase = "setup"
    /\ foreignCalls' = foreignCalls + 1
    /\ phase' = "running"
    /\ UNCHANGED <<request, adapterCalls, raw, outcome, adapterVars, resultVars>>

\* The foreign routine invokes the adapter once more.
ForeignCallback ==
    /\ phase = "running"
    /\ adapterCalls < MaxCalls
    /\ adapterCalls' = adapterCalls + 1
    /\ UNCHANGED <<phase, request, foreignCalls, raw, outcome, adapterVars, resultVars>>

\* The foreign routine returns, leaving its output in the raw buffers.
ForeignEnd(buf) ==
    /\ phase = "running"
    /\ raw' = buf
    /\ phase' = "returned"
    /\ UNCHANGED <<request, foreignCalls, adapterCalls, outcome, adapterVars, resultVars>>

\* The driver parses the raw buffers and checks convergence.
Parse ==
    /\ phase = "returned"
    /\ outcome' = ParseOutcome(request.alg, raw)
    /\ phase' = "done"
    /\ UNCHANGED <<request, foreignCalls, adapterCalls, raw, adapterVars, resultVars>>

\* What the foreign routine can leave behind for nc components after calls
\* evaluations of the integrand.
RawBuffers(nc, calls) ==
    [integral : SeqsOfLen(RealVals, nc), error : SeqsOfLen(RealVals, nc),
     prob : SeqsOfLen(RealVals, nc), nregions : {1}, neval : {calls}, fail : {0, 1}]

(* ------------------------ result iteration adapter --------------------- *)

\* An exhausted iterator that starts over from the first element.
IntoIter_next_restarting(it) ==
    IF it.pos > Len(it.buf)
    THEN [iter |-> [it EXCEPT !.pos = 1], item |-> None]
    ELSE [iter |-> [it EXCEPT !.pos = @ + 1], item |-> Some(it.buf[it.pos])]

\* vec::IntoIter::next, as used by self.iter.next(): the element at the
\* cursor and the cursor advanced, or None with the cursor left at the end.
IntoIter_next(it) ==
    IF it.pos > Len(it.buf)
    THEN [iter |-> it, item |-> None]
    ELSE [iter |-> [it EXCEPT !.pos = @ + 1], item |-> Some(it.buf[it.pos])]

\* The two fields of the item exchanged.
CubaResultsIter_map_swapped(r) == IntegrationResult(r.error, r.value)

\* |CubaIntegrationResult { value, error, .. }| IntegrationResult { value, error }
CubaResultsIter_map(r) == IntegrationResult(r.value, r.error)

\* impl Iterator for CubaResultsIter: fn next(&mut self) -> Option<Self::Item>
CubaResultsIter_next(it) ==
    LET inner == IntoIter_next(it)
    IN  [iter |-> inner.iter,
         item |-> IF inner.item.some THEN Some(CubaResultsIter_map(inner.item.val))
                  ELSE None]

\* impl From<Vec<CubaIntegrationResult>> for CubaResultsIter: v.into_iter()
CubaResultsIter_from(v) == [buf |-> v, pos |-> 1]

\* fn results(self) -> CubaResultsIter { From::from(self.results) }
results ==
    /\ iter.pos = 0
    /\ iter' = CubaResultsIter_from(given.results)
    /\ UNCHANGED <<given, log, adapterVars, driverVars>>

\* One call of next() on the iterator; log records what each call returned.
next ==
    /\ iter.pos > 0
    /\ Len(log) < Len(given.results) + MaxExtraNext
    /\ iter' = CubaResultsIter_next(iter).iter
    /\ log' = Append(log, CubaResultsIter_next(iter).item)
    /\ UNCHANGED <<given, adapterVars, driverVars>>

\* The CubaIntegrationResults a consumer can hold.
AllResults ==
    UNION { [nregions : {None, Some(1)}, neval : {0, 1},
             results : SeqsOfLen([value : RealVals, error : RealVals, prob : RealVals], n)] :
            n \in 0..MaxCount }

\* Values of the driver's and the iterator's variables while they are not
\* in use.
NoRequest == [alg |-> "none", ndim |-> 0, ncomp |-> 0]
NoRaw     == [integral |-> <<>>, error |-> <<>>, prob |-> <<>>,
              nregions |-> 0, neval |-> 0, fail |-> 0]
NoOutcome == [tag |-> "none"]
NoResults == [nregions |-> [some |-> FALSE, val |-> 0], neval |-> 0, results |-> <<>>]
NoIter    == [buf |-> <<>>, pos |-> 0]

DriverIdle ==
    /\ phase = "unused" /\ request = NoRequest /\ foreignCalls = 0
    /\ adapterCalls = 0 /\ raw = NoRaw /\ outcome = NoOutcome

ResultsIdle == given = NoResults /\ iter = NoIter /\ log = <<>>

AdapterIdle ==
    /\ lp = NoPad
    /\ pc = [t \in Threads |-> "unused"]
    /\ ndim = [t \in Threads |-> 0]
    /\ x = [t \in Threads |-> <<>>]
    /\ ncomp = [t \in Threads |-> 0]
    /\ args = [t \in Threads |-> <<>>]
    /\ outlen = [t \in Threads |-> 0]
    /\ sized = [t \in Threads |-> FALSE]
    /\ eval = [t \in Threads |-> "none"]
    /\ res = [t \in Threads |-> "none"]
    /\ ret = [t \in Threads |-> NotReturned]
    /\ aborted = FALSE
    /\ late = [t \in Threads |-> FALSE]

\* A driver has constructed the Landing Pad and called the foreign routine;
\* no callback has been made yet.
InitAdapter ==
    /\ lp \in LandingPads
    /\ pc = [t \in Threads |-> "idle"]
    /\ ndim = [t \in Threads |-> 0]
    /\ x = [t \in Threads |-> <<>>]
    /\ ncomp = [t \in Threads |-> 0]
    /\ args = [t \in Threads |-> <<>>]
    /\ outlen = [t \in Threads |-> 0]
    /\ sized = [t \in Threads |-> FALSE]
    /\ eval = [t \in Threads |-> "none"]
    /\ res = [t \in Threads |-> "none"]
    /\ ret = [t \in Threads |-> NotReturned]
    /\ aborted = FALSE
    /\ late = [t \in Threads |-> FALSE]
    /\ DriverIdle
    /\ ResultsIdle

\* The foreign routine picks the counts and the point of each callback.
NextAdapter ==
    \E t \in Threads :
        \/ \E n \in 0..MaxCount, m \in 0..MaxCount :
              \E xs \in SeqsOfLen(RealVals, n) : cuba_integrand_entry(t, n, xs, m)
        \/ try_call_invoke(t)
        \/ try_call_return(t)
        \/ cuba_integrand_exit(t)

SpecAdapter == InitAdapter /\ [][NextAdapter]_vars

InitDriver ==
    /\ phase = "idle" /\ request = NoRequest /\ foreignCalls = 0
    /\ adapterCalls = 0 /\ raw = NoRaw /\ outcome = NoOutcome
    /\ AdapterIdle
    /\ ResultsIdle

NextDriver ==
    \/ \E alg \in Algorithms, nd \in 0..(MaxCount + 1), nc \in 0..(MaxCount + 1) :
          Integrate(alg, nd, nc)
    \/ ForeignBegin
    \/ ForeignCallback
    \/ \E buf \in RawBuffers(request.ncomp, adapterCalls) : ForeignEnd(buf)
    \/ Parse

SpecDriver == InitDriver /\ [][NextDriver]_vars

InitResults ==
    /\ given \in AllResults
    /\ iter = NoIter
    /\ log = <<>>
    /\ AdapterIdle
    /\ DriverIdle

NextResults == results \/ next

SpecResults == InitResults /\ [][NextResults]_vars

(* ------------------------ claims on the adapter ------------------------ *)

\* Thread t has finished an invocation and not begun another.
Completed(t) == pc[t] = "idle" /\ ret[t].kind # "none"

\* C1: whenever try_call reported failure the adapter returned -999, and
\* the status of every finished invocation is 0 or -999.
C1_StatusIsZeroOrAbort ==
    \A t \in Threads :
        Completed(t) =>
            /\ ret[t].status \in {0, -999}
            /\ res[t] = "Err" => ret[t] = Returned(-999)

C1_Witness ==
    \E t \in Threads :
        /\ Completed(t) /\ lp.failOn # {} /\ sized[t]
        /\ res[t] = "Err" /\ ret[t] = Returned(-999)

\* C2: with a closure that always succeeds, every finished invocation whose
\* buffers had the declared sizes returned status 0.
C2_AlwaysSucceedsReturnsZero ==
    lp.failOn = {} =>
        \A t \in Threads : Completed(t) /\ sized[t] => ret[t] = Returned(0)

C2_Witness ==
    /\ lp.failOn = {}
    /\ \A t \in Threads : Completed(t) /\ sized[t] /\ ret[t] = Returned(0)

\* C3: no invocation leaves the adapter by unwinding: once the closure
\* evaluation of an invocation is over the invocation ends in a return, and
\* a failed evaluation is seen by the foreign routine as -999 only.
C3_NoUnwindIntoForeignCaller ==
    \A t \in Threads :
        /\ ret[t].kind # "unwind"
        /\ Completed(t) => ret[t].kind = "return" /\ ret[t].status \in Int
        /\ Completed(t) /\ eval[t] = "panic" => ret[t] = Returned(-999)

C3_Witness ==
    \E t \in Threads :
        /\ Completed(t) /\ sized[t] /\ args[t] = <<>>
        /\ eval[t] = "panic" /\ ret[t].kind = "return" /\ ret[t].status = -999

\* C8: the adapter takes no lock: a worker that is outside the adapter can
\* always enter it, and a worker holding its views can always enter the
\* closure, whatever the other workers are doing.
C8_NoLockAroundClosure ==
    \A t \in Threads :
        /\ pc[t] = "idle" =>
              ENABLED (\E n \in 0..MaxCount, m \in 0..MaxCount :
                         \E xs \in SeqsOfLen(RealVals, n) : cuba_integrand_entry(t, n, xs, m))
        /\ pc[t] = "try_call" => ENABLED try_call_invoke(t)

\* Two evaluations of the one closure in progress at the same time.
C8_Witness ==
    \E t, u \in Threads : t # u /\ pc[t] = "closure" /\ pc[u] = "closure"

\* C9: the views handed to try_call have exactly the advertised lengths,
\* and the invocation goes on to try_call whether or not these are the
\* declared ones.
C9_ViewsUseAdvertisedCounts ==
    \A t \in Threads :
        pc[t] = "try_call" =>
            /\ Len(args[t]) = ndim[t]
            /\ args[t] = x[t]
            /\ outlen[t] = ncomp[t]
            /\ ENABLED try_call_invoke(t)

C9_Witness ==
    \E t \in Threads :
        /\ pc[t] = "try_call"
        /\ ndim[t] > lp.dim /\ ncomp[t] # lp.comp
        /\ Len(args[t]) = ndim[t] /\ outlen[t] = ncomp[t]

\* C10: an invocation begun after the abort code was returned still
\* returns 0 when its own try_call succeeds.
C10_AbortNotLatched ==
    \A t \in Threads :
        Completed(t) /\ late[t] =>
            /\ res[t] = "Ok" => ret[t] = Returned(0)
            /\ eval[t] = "value" => ret[t] = Returned(0)

C10_Witness ==
    \E t \in Threads :
        /\ Completed(t) /\ late[t] /\ aborted
        /\ eval[t] = "value" /\ res[t] = "Ok" /\ ret[t] = Returned(0)

(* ------------------------ claims on the driver ------------------------- *)

\* C4: once the foreign call has returned and been parsed, the outcome is
\* the parsed results themselves when the routine converged and
\* DidNotConverge around them when it did not; in both cases the results
\* carry the evaluation count and, per component, the value, error and prob
\* of the raw buffers; and there is one foreign call behind them.
C4_ResultsReturnedOrWrapped ==
    phase = "done" /\ foreignCalls > 0 =>
        /\ foreignCalls = 1
        /\ outcome.tag = (IF raw.fail = 0 THEN "Ok" ELSE "Err")
        /\ outcome.tag = "Err" => outcome.val.variant = "DidNotConverge"
        /\ LET r == IF outcome.tag = "Ok" THEN outcome.val ELSE outcome.val.results
           IN  /\ r.neval = raw.neval
               /\ r.nregions = (IF request.alg = "vegas" THEN None ELSE Some(raw.nregions))
               /\ Len(r.results) = request.ncomp
               /\ \A i \in 1..request.ncomp :
                    /\ r.results[i].value = raw.integral[i]
                    /\ r.results[i].error = raw.error[i]
                    /\ r.results[i].prob  = raw.prob[i]

C4_Witness ==
    /\ phase = "done" /\ foreignCalls = 1 /\ raw.fail = 1
    /\ request.ncomp = 2
    /\ outcome.tag = "Err" /\ outcome.val.variant = "DidNotConverge"
    /\ Len(outcome.val.results.results) = 2
    /\ outcome.val.results.results[2].value = raw.integral[2]

\* C7: a request whose dimensionality is 0 or above the algorithm's maximum
\* ends in BadDim(algorithm, attempted dimension) with no foreign call and
\* no adapter invocation.
C7_BadDimWithoutForeignCall ==
    request.alg # "none" /\ (request.ndim = 0 \/ request.ndim > AlgMaxDim(request.alg)) =>
        /\ phase = "done"
        /\ outcome.tag = "Err"
        /\ outcome.val.variant = "BadDim"
        /\ outcome.val.name = request.alg
        /\ outcome.val.n = request.ndim
        /\ foreignCalls = 0
        /\ adapterCalls = 0

C7_Witness ==
    /\ request.alg = "cuhre" /\ request.ndim > AlgMaxDim(request.alg)
    /\ outcome.tag = "Err" /\ outcome.val.variant = "BadDim"
    /\ outcome.val.n = request.ndim /\ foreignCalls = 0

(* --------------------- claims on the result iteration ------------------ *)

\* The items the calls of next() have produced so far, in order.
Items == [i \in 1..Len(SelectSeq(log, LAMBDA o : o.some)) |->
             SelectSeq(log, LAMBDA o : o.some)[i].val]

Exhausted == \E i \in 1..Len(log) : ~log[i].some

\* C5: the items produced are, in order, the (value, error) pairs of the
\* given results and nothing else, and once the sequence has ended there
\* are exactly as many items as component results.
C5_ItemsAreValueErrorPairs ==
    /\ Len(Items) <= Len(given.results)
    /\ Exhausted => Len(Items) = Len(given.results)
    /\ \A i \in 1..Len(Items) :
          /\ DOMAIN Items[i] = {"value", "error"}
          /\ Items[i].value = given.results[i].value
          /\ Items[i].error = given.results[i].error

C5_Witness ==
    /\ Exhausted /\ Len(Items) = 2 /\ Len(given.results) = 2
    /\ given.results[1].value # given.results[1].error
    /\ given.results[1] # given.results[2]
    /\ given.nregions.some
    /\ Items[1] = IntegrationResult(given.results[1].value, given.results[1].error)
    /\ Items[2] = IntegrationResult(given.results[2].value, given.results[2].error)

\* C6: the k-th call of next() returns an item exactly when k is at most
\* the number of component results; every later call returns None.
C6_ExhaustedForGood ==
    \A k \in 1..Len(log) : log[k].some <=> k <= Len(given.results)

C6_Witness ==
    /\ Len(given.results) = 2 /\ Len(log) = 4
    /\ log[1].some /\ log[2].some /\ ~log[3].some /\ ~log[4].some

====
